---------------------------- MODULE Spec2Model ----------------------------
(***************************************************************************)
(* Pomoflare: the Pomodoro page (src/src/pages/Index.tsx) driving the      *)
(* countdown hook useBackgroundTimer (src/unnamed/part_000).               *)
(*                                                                         *)
(* React state is modelled by one variable per useState/useRef cell.  A    *)
(* callback registered with setInterval or setTimeout keeps the closure of *)
(* the render in which it was created: `tick` is handed to setInterval by  *)
(* startTimer, and the onComplete it calls is the handleTimerComplete of   *)
(* that same render, so the timerState and settings it reads are the ones  *)
(* current when the countdown was started.  That closure is part of the    *)
(* state (intervalRef.closure, autoStart.closure).                         *)
(*                                                                         *)
(* The reminder (the MCQ effect of Index.tsx) has its own interval, armed  *)
(* and cleared by an effect that runs with the render following a change   *)
(* of mcqMode, mcqInterval, isActive or the phase.  The worker timer       *)
(* (src/src/utils/timerWorker.ts) is a second clock with the same tick; no *)
(* page uses it, and it is exercised on its own.                           *)
(***************************************************************************)
EXTENDS Integers, Sequences, FiniteSets, TLC

VARIABLES
    status,       \* "boot" before the first render, "mounted", or "crashed"
    timerState,   \* Index.tsx:53   {phase, sessionCount}
    settings,     \* Index.tsx:58   PomodoroSettings
    currentPreset,\* Index.tsx:59
    statistics,   \* Index.tsx:71   in-memory Statistics
    storage,      \* localStorage item 'pomodoro-stats'
    today,        \* the calendar day new Date().toDateString() names
    time,         \* part_000:14    {minutes, seconds}
    isActive,     \* part_000:15
    intervalRef,  \* part_000:16    the setInterval handle and the closure of its tick
    timers,       \* part_000:78    the number of live intervals that call tick
    wakeLockApi,  \* part_000:22    what navigator.wakeLock does in this browser
    wakeLockRef,  \* part_000:17    the ref holds a sentinel
    wakeLockPending, \* part_000:23 requests awaited and not yet settled
    wakeLocks,    \* the number of sentinels granted and not released
    timerInterval,\* timerWorker.ts:2  the worker's interval is live
    currentTime,  \* timerWorker.ts:3
    isRunning,    \* timerWorker.ts:4
    autoStart,    \* Index.tsx:218  the pending setTimeout of the auto-start
    mcqMode,      \* Index.tsx:61   the reminder feature is enabled
    mcqInterval,  \* Index.tsx:62   seconds between reminders
    mcqCountdown, \* Index.tsx:89   seconds to the next reminder
    mcqIntervalRef,\* Index.tsx:90  the reminder's setInterval is live
    reminder,     \* history: reminder ticks since the reminder was armed
    countdown,    \* history: what the running countdown was started as
    probe,        \* history: ticks and completion signals since the last start
    last          \* history: the operation that produced this state

vars == <<status, timerState, settings, currentPreset, statistics, storage,
          today, time, isActive, intervalRef, timers, wakeLockApi, wakeLockRef,
          wakeLockPending, wakeLocks, timerInterval, currentTime,
          isRunning, autoStart, mcqMode, mcqInterval, mcqCountdown,
          mcqIntervalRef, reminder, countdown, probe, last>>

appVars == <<timerState, settings, currentPreset, statistics, storage>>
wakeVars == <<wakeLockApi, wakeLockRef, wakeLockPending, wakeLocks>>
hookVars == <<time, isActive, intervalRef, timers, wakeVars>>
workerVars == <<timerInterval, currentTime, isRunning>>
mcqVars == <<mcqMode, mcqInterval, mcqCountdown, mcqIntervalRef, reminder>>

-----------------------------------------------------------------------------
(* Bounds of the exploration. *)

\* A countdown is explored only when no duration it can run exceeds this.
MaxMinutes == 2
\* Completions are explored while the captured session count is below this.
MaxSessions == 2
\* Completions are explored while completedSessions is below this.
MaxCompleted == 2
\* Break completions are explored while totalBreakTime is below this.
MaxBreakTotal == 1
\* The calendar advances at most to this day.
MaxDay == 2
\* The reminder's ticks are explored while its interval is at most this.
MaxInterval == 2
\* Reminders are explored while mcqReminders is below this.
MaxReminders == 2
\* The reminder's ticks are explored while fewer than this many have fired
\* since it was armed.
MaxReminderTicks == MaxInterval * (MaxReminders + 1)

-----------------------------------------------------------------------------
(* Data. *)

Phases == {"focus", "shortBreak", "longBreak"}

PresetNames == {"focus", "deepWork", "exam", "custom"}

PRESETS(preset) ==
    CASE preset = "focus" ->
           [focusTime |-> 25, shortBreak |-> 5, longBreak |-> 15, longBreakInterval |-> 4]
      [] preset = "deepWork" ->
           [focusTime |-> 50, shortBreak |-> 10, longBreak |-> 30, longBreakInterval |-> 3]
      [] preset = "exam" ->
           [focusTime |-> 45, shortBreak |-> 15, longBreak |-> 45, longBreakInterval |-> 2]
      [] preset = "custom" ->
           [focusTime |-> 25, shortBreak |-> 5, longBreak |-> 15, longBreakInterval |-> 4]

\* The values typed into the custom preset's number inputs.
SettingInputs ==
    { <<"focusTime", 1>>, <<"shortBreak", 1>>, <<"longBreak", 2>>,
      <<"longBreakInterval", 1>> }

\* The values typed into the reminder's interval input.
McqIntervalInputs == 0 .. MaxInterval

\* useState(300)
InitialMcqInterval == 300

Duration(m, s) == [minutes |-> m, seconds |-> s]

\* The durations handed to the hook when it is exercised on its own.
ClockDurations ==
    { Duration(m, s) : m \in 0 .. MaxMinutes, s \in {0, 1, 30, 59} }

InitialTimerState == [phase |-> "focus", sessionCount |-> 0]

InitialTime == Duration(25, 0)

ZeroStatistics(day) ==
    [totalFocusTime |-> 0, totalBreakTime |-> 0, completedSessions |-> 0,
     mcqReminders |-> 0, todayDate |-> day]

\* A render's closure: what handleTimerComplete of that render reads.
Closure(ts, st) == [phase |-> ts.phase, sessionCount |-> ts.sessionCount, settings |-> st]

NoClosure == Closure(InitialTimerState, PRESETS("focus"))

NoInterval == [set |-> FALSE, closure |-> NoClosure]

NoAutoStart == [set |-> FALSE, phase |-> "shortBreak", minutes |-> 0, closure |-> NoClosure]

Secs(t) == t.minutes * 60 + t.seconds

\* History records.  last: the operation and what it found: the time a pause
\* held (at), whether a start followed a pause or a reset found the Clock
\* or a preset selection found the Clock active (flag), the phase a reset or
\* a preset selection found, the kind of stored item a mount
\* found or the kind of countdown a completion ended (note).  When a clock is
\* exercised on its own: the duration a start or reset was given (at),
\* whether the operation found the clock running (flag), the clock (note).  countdown: the phase whose duration the running countdown
\* was started with.  probe: counts since the last start of the hook.
Op(name) == [op |-> name, at |-> Duration(0, 0), flag |-> FALSE, note |-> ""]

OpWith(name, at, flag, note) == [op |-> name, at |-> at, flag |-> flag, note |-> note]

NoCountdown == [kind |-> "none", auto |-> FALSE]

Started(kind, auto) == [kind |-> kind, auto |-> auto]

NoProbe == [started |-> Duration(0, 0), elapsed |-> 0, signals |-> 0, clean |-> FALSE]

-----------------------------------------------------------------------------
(* localStorage: the item is absent, or a text.  A text is modelled by     *)
(* what JSON.parse makes of it.                                            *)

Stored(kind, rec) == [kind |-> kind, rec |-> rec]

\* A text that leaves the reminder count out.
StringifyWithoutReminders(stats) == Stored("object", [stats EXCEPT !.mcqReminders = 0])

\* JSON.stringify(statistics)
Stringify(stats) == Stored("object", stats)

\* The initializer of the statistics state throws: JSON.parse on a text that
\* is not JSON, or parsed.todayDate on the parsed value null.
LoadThrows(saved) == saved.kind \in {"garbage", "null"}

\* The stored record is one of another day (or has no todayDate at all).
Discards(saved, day) ==
    \/ saved.kind = "emptyObject"
    \/ saved.kind = "object" /\ saved.rec.todayDate # day

\* A load that returns any stored record, whatever its date key.
LoadIgnoringDate(saved, day) ==
    IF saved.kind = "object" THEN saved.rec ELSE ZeroStatistics(day)

LoadStatistics(saved, day) ==
    IF saved.kind \in {"absent", "emptyText"} \/ Discards(saved, day)
        THEN ZeroStatistics(day)
        ELSE saved.rec

-----------------------------------------------------------------------------
(* The countdown hook. *)

\* A tick that takes the time to have run out whenever the seconds are 0.
TimeIsUpSecondsOnly(t) == t.seconds = 0

\* tick: the remaining time has run out
TimeIsUp(t) == t.seconds = 0 /\ t.minutes = 0

\* A decrement that borrows a minute and leaves the seconds at 0.
DecrementWithoutSeconds(t) ==
    IF t.seconds = 0
        THEN Duration(t.minutes - 1, 0)
        ELSE Duration(t.minutes, t.seconds - 1)

\* tick: the decrement of a time that has not run out
Decrement(t) ==
    IF t.seconds = 0
        THEN Duration(t.minutes - 1, 59)
        ELSE Duration(t.minutes, t.seconds - 1)

\* A clearInterval that leaves the interval running.
NotCleared(ref, live) == live

\* if (intervalRef.current) clearInterval(intervalRef.current): the live
\* intervals that remain
Cleared(ref, live) == IF ref.set THEN live - 1 ELSE live

\* A start that sets up its interval without clearing the one before.
RestartedOnTop(ref, live) == live + 1

\* startTimer: the live intervals after the old one is cleared and the new
\* one set up
Restarted(ref, live) == Cleared(ref, live) + 1

\* What navigator.wakeLock can be: absent, or a request that is granted or
\* rejected.
WakeLockApis == {"unsupported", "denied", "granted"}

\* The call of requestWakeLock up to its await: the request is sent when the
\* API exists, and the caller goes on without waiting for it.
requestWakeLock ==
    /\ wakeLockPending' = IF wakeLockApi = "unsupported" THEN wakeLockPending
                          ELSE wakeLockPending + 1
    /\ UNCHANGED <<wakeLockApi, wakeLockRef, wakeLocks>>

\* A release that does not look at the ref first.
releaseUnchecked ==
    /\ wakeLocks' = wakeLocks - 1
    /\ wakeLockRef' = FALSE
    /\ UNCHANGED <<wakeLockApi, wakeLockPending>>

releaseWakeLock ==
    /\ IF wakeLockRef
         THEN /\ wakeLocks' = wakeLocks - 1
              /\ wakeLockRef' = FALSE
         ELSE UNCHANGED <<wakeLocks, wakeLockRef>>
    /\ UNCHANGED <<wakeLockApi, wakeLockPending>>

startTimer(initialTime, closure) ==
    /\ time' = initialTime
    /\ isActive' = TRUE
    /\ requestWakeLock
    /\ timers' = Restarted(intervalRef, timers)
    /\ intervalRef' = [set |-> TRUE, closure |-> closure]

pauseTimer ==
    /\ isActive' = FALSE
    /\ timers' = Cleared(intervalRef, timers)
    /\ intervalRef' = NoInterval
    /\ releaseWakeLock
    /\ UNCHANGED time

\* A reset that sets the time and leaves the Clock as it is.
resetKeepsRunning(newTime) ==
    /\ time' = newTime
    /\ releaseWakeLock
    /\ UNCHANGED <<isActive, timers, intervalRef>>

resetTimer(newTime) ==
    /\ time' = newTime
    /\ isActive' = FALSE
    /\ timers' = Cleared(intervalRef, timers)
    /\ intervalRef' = NoInterval
    /\ releaseWakeLock

-----------------------------------------------------------------------------
(* The page. *)

IsLongBreak(newSessionCount, longBreakInterval) ==
    /\ longBreakInterval # 0
    /\ newSessionCount % longBreakInterval = 0

NextPhase(newSessionCount, longBreakInterval) ==
    IF IsLongBreak(newSessionCount, longBreakInterval) THEN "longBreak" ELSE "shortBreak"

NextDuration(newSessionCount, st) ==
    IF IsLongBreak(newSessionCount, st.longBreakInterval) THEN st.longBreak ELSE st.shortBreak

BreakTime(phase, st) == IF phase = "longBreak" THEN st.longBreak ELSE st.shortBreak

PhaseMinutes(phase, st) ==
    IF phase = "focus" THEN st.focusTime
    ELSE IF phase = "shortBreak" THEN st.shortBreak
    ELSE st.longBreak

\* Every duration a countdown started under st can run is within the bound.
Explored(st) ==
    /\ st.focusTime <= MaxMinutes
    /\ st.shortBreak <= MaxMinutes
    /\ st.longBreak <= MaxMinutes

\* handleTimerComplete of the render that closure c belongs to
handleTimerComplete(c) ==
    IF c.phase = "focus"
        THEN LET newSessionCount == c.sessionCount + 1
                 st == c.settings
             IN /\ timerState' = [phase |-> NextPhase(newSessionCount, st.longBreakInterval),
                                  sessionCount |-> newSessionCount]
                /\ statistics' = [statistics EXCEPT
                       !.totalFocusTime = @ + st.focusTime,
                       !.completedSessions = @ + 1]
                /\ autoStart' = [set |-> TRUE,
                                 phase |-> NextPhase(newSessionCount, st.longBreakInterval),
                                 minutes |-> NextDuration(newSessionCount, st),
                                 closure |-> c]
        ELSE /\ timerState' = [timerState EXCEPT !.phase = "focus"]
             /\ statistics' = [statistics EXCEPT
                    !.totalBreakTime = @ + BreakTime(c.phase, c.settings)]
             /\ UNCHANGED autoStart

\* The bound on the counters a completion advances.
CompletionExplored(c) ==
    IF c.phase = "focus"
        THEN c.sessionCount < MaxSessions /\ statistics.completedSessions < MaxCompleted
        ELSE statistics.totalBreakTime < MaxBreakTotal

\* The reminder effect, run after the render an action leads to when one of
\* mcqMode, mcqInterval, isActive, timerState.phase has changed: the old
\* reminder interval is cleared, and a new one is armed when the feature is
\* enabled and the Clock is active in the focus phase.
ArmsInAnyPhase == mcqMode' /\ isActive'

Arms == mcqMode' /\ isActive' /\ timerState'.phase = "focus"

McqEffect ==
    IF <<mcqMode', mcqInterval', isActive', timerState'.phase>>
         = <<mcqMode, mcqInterval, isActive, timerState.phase>>
        THEN UNCHANGED <<mcqCountdown, mcqIntervalRef, reminder>>
        ELSE /\ mcqCountdown' = IF Arms THEN mcqInterval' ELSE 0
             /\ mcqIntervalRef' = Arms
             /\ reminder' = 0

\* An action that leaves the reminder's switch and interval alone.
Rendered ==
    /\ UNCHANGED <<mcqMode, mcqInterval>>
    /\ McqEffect

showMcqReminder ==
    /\ statistics' = [statistics EXCEPT !.mcqReminders = @ + 1]
    /\ storage' = Stringify(statistics')

\* A reminder that is due only when the countdown has reached zero.
DueAtZero(prev) == prev <= 0

\* setMcqCountdown's updater in the reminder interval: the reminder is due
Due(prev) == prev <= 1

\* A countdown that passes through zero before it starts over.
CountdownThroughZero(prev) == IF prev <= 0 THEN mcqInterval ELSE prev - 1

\* setMcqCountdown's updater in the reminder interval: the new countdown
NextMcqCountdown(prev) == IF Due(prev) THEN mcqInterval ELSE prev - 1

\* One firing of the reminder interval.
McqTick ==
    /\ status = "mounted"
    /\ mcqIntervalRef
    /\ mcqInterval <= MaxInterval
    /\ reminder < MaxReminderTicks
    /\ mcqCountdown' = NextMcqCountdown(mcqCountdown)
    /\ IF Due(mcqCountdown)
         THEN /\ statistics.mcqReminders < MaxReminders
              /\ showMcqReminder
         ELSE UNCHANGED <<statistics, storage>>
    /\ reminder' = reminder + 1
    /\ last' = OpWith("mcqTick", Duration(0, 0), Due(mcqCountdown), "")
    /\ UNCHANGED <<status, workerVars, timerState, settings, currentPreset, today, hookVars,
                   autoStart, mcqMode, mcqInterval, mcqIntervalRef, countdown, probe>>

\* The reminder switch.
setMcqMode(checked) ==
    /\ status = "mounted"
    /\ mcqMode' = checked
    /\ last' = Op("mcqMode")
    /\ UNCHANGED <<status, workerVars, appVars, today, hookVars, autoStart, mcqInterval,
                   countdown, probe>>
    /\ McqEffect

\* The interval input, shown while the reminder is switched on.
setMcqInterval(value) ==
    /\ status = "mounted"
    /\ mcqMode
    /\ mcqInterval' = value
    /\ last' = Op("mcqInterval")
    /\ UNCHANGED <<status, workerVars, appVars, today, hookVars, autoStart, mcqMode,
                   countdown, probe>>
    /\ McqEffect

\* One firing of the interval: tick of the render that started the countdown.
\* The pending auto-start, set one second before any later tick, fires first.
Tick ==
    /\ status = "mounted"
    /\ intervalRef.set
    /\ ~autoStart.set
    /\ time.minutes >= -MaxMinutes
    /\ IF TimeIsUp(time)
         THEN /\ CompletionExplored(intervalRef.closure)
              /\ isActive' = FALSE
              /\ timers' = Cleared(intervalRef, timers)
              /\ intervalRef' = NoInterval
              /\ UNCHANGED time
              /\ handleTimerComplete(intervalRef.closure)
              /\ storage' = Stringify(statistics')
              /\ countdown' = NoCountdown
              /\ last' = OpWith("complete", Duration(0, 0), FALSE, countdown.kind)
         ELSE /\ time' = Decrement(time)
              /\ UNCHANGED <<isActive, intervalRef, timers, timerState, statistics,
                             storage, autoStart, countdown>>
              /\ last' = Op("tick")
    /\ UNCHANGED <<status, workerVars, wakeVars, settings, currentPreset, today, probe>>
    /\ Rendered

\* The setTimeout callback of handleTimerComplete: startTimer of that render.
AutoStart ==
    /\ status = "mounted"
    /\ autoStart.set
    /\ startTimer(Duration(autoStart.minutes, 0), autoStart.closure)
    /\ autoStart' = NoAutoStart
    /\ countdown' = Started(autoStart.phase, TRUE)
    /\ last' = Op("autoStart")
    /\ UNCHANGED <<status, workerVars, appVars, today, probe>>
    /\ Rendered

\* The Start button is shown while the Clock is not active.
handleStartTimer ==
    /\ status = "mounted"
    /\ ~isActive
    /\ Explored(settings)
    /\ startTimer(Duration(PhaseMinutes(timerState.phase, settings), 0),
                  Closure(timerState, settings))
    /\ countdown' = Started(timerState.phase, FALSE)
    /\ last' = IF last.op = "pause"
                 THEN OpWith("start", last.at, TRUE, "")
                 ELSE Op("start")
    /\ UNCHANGED <<status, workerVars, appVars, today, autoStart, probe>>
    /\ Rendered

\* The Pause button is shown while the Clock is active.
handlePauseTimer ==
    /\ status = "mounted"
    /\ isActive
    /\ pauseTimer
    /\ countdown' = NoCountdown
    /\ last' = OpWith("pause", time, TRUE, "")
    /\ UNCHANGED <<status, workerVars, appVars, today, autoStart, probe>>
    /\ Rendered

\* A reset that forces the phase and keeps the session count.
ResetKeepsSessionCount == [phase |-> "focus", sessionCount |-> timerState.sessionCount]

ResetTimerState == [phase |-> "focus", sessionCount |-> 0]

handleResetTimer ==
    /\ status = "mounted"
    /\ resetTimer(Duration(settings.focusTime, 0))
    /\ timerState' = ResetTimerState
    /\ countdown' = NoCountdown
    /\ last' = OpWith("reset", Duration(0, 0), isActive, timerState.phase)
    /\ UNCHANGED <<status, workerVars, settings, currentPreset, statistics, storage, today,
                   autoStart, probe>>
    /\ Rendered

\* A preset selection that resets the Clock only when it is not active.
ResetsWhenStopped(preset) == ~isActive

\* A preset selection that resets the Clock whatever its state.
ResetsAlways(preset) == TRUE

\* handlePresetChange: if (!isActive || preset === 'custom')
ResetsClock(preset) == ~isActive \/ preset = "custom"

handlePresetChange(preset) ==
    /\ status = "mounted"
    /\ currentPreset' = preset
    /\ settings' = PRESETS(preset)
    /\ IF ResetsClock(preset)
         THEN /\ resetTimer(Duration(PRESETS(preset).focusTime, 0))
              /\ countdown' = NoCountdown
         ELSE UNCHANGED <<hookVars, countdown>>
    /\ last' = OpWith("preset", Duration(0, 0), isActive, timerState.phase)
    /\ UNCHANGED <<status, workerVars, timerState, statistics, storage, today, autoStart, probe>>
    /\ Rendered

\* Number inputs that are never disabled.
InputsAlwaysEnabled == TRUE

\* The number inputs are disabled unless the custom preset is selected.
InputsEnabled == currentPreset = "custom"

handleSettingChange(key, value) ==
    /\ status = "mounted"
    /\ InputsEnabled
    /\ settings' = [settings EXCEPT ![key] = value]
    /\ last' = Op("setting")
    /\ UNCHANGED <<status, workerVars, timerState, currentPreset, statistics, storage, today,
                   hookVars, autoStart, mcqVars, countdown, probe>>

\* Zeroed statistics that keep the date key they had.
newStatsWithOldDate == ZeroStatistics(statistics.todayDate)

\* resetStatistics: newStats
newStats == ZeroStatistics(today)

resetStatistics ==
    /\ status = "mounted"
    /\ statistics' = newStats
    /\ storage' = Stringify(statistics')
    /\ last' = Op("resetStatistics")
    /\ UNCHANGED <<status, workerVars, timerState, settings, currentPreset, today, hookVars,
                   autoStart, mcqVars, countdown, probe>>

-----------------------------------------------------------------------------
(* The environment: the first render, a reload of the page, midnight. *)

\* The first render of Index and its effects: the statistics initializer,
\* then the save effect.  An exception in the initializer ends the render.
Mount ==
    /\ status = "boot"
    /\ IF LoadThrows(storage)
         THEN /\ status' = "crashed"
              /\ UNCHANGED <<statistics, storage>>
         ELSE /\ status' = "mounted"
              /\ statistics' = LoadStatistics(storage, today)
              /\ storage' = Stringify(statistics')
    /\ last' = OpWith("mount", Duration(0, 0), Discards(storage, today), storage.kind)
    /\ UNCHANGED <<timerState, settings, currentPreset, today, hookVars, workerVars,
                   autoStart, mcqVars, countdown, probe>>

\* The page is loaded again: every state cell is constructed anew, every
\* timer of the old page is gone, the stored item stays.
Reload ==
    /\ status = "mounted"
    /\ status' = "boot"
    /\ timerState' = InitialTimerState
    /\ settings' = PRESETS("focus")
    /\ currentPreset' = "focus"
    /\ statistics' = ZeroStatistics(0)
    /\ time' = InitialTime
    /\ isActive' = FALSE
    /\ intervalRef' = NoInterval
    /\ timers' = 0
    /\ wakeLockRef' = FALSE
    /\ wakeLockPending' = 0
    /\ wakeLocks' = 0
    /\ UNCHANGED wakeLockApi
    /\ autoStart' = NoAutoStart
    /\ mcqMode' = FALSE
    /\ mcqInterval' = InitialMcqInterval
    /\ mcqCountdown' = 0
    /\ mcqIntervalRef' = FALSE
    /\ reminder' = 0
    /\ countdown' = NoCountdown
    /\ last' = Op("reload")
    /\ UNCHANGED <<storage, today, workerVars, probe>>

\* Midnight passes while the page is open.
NewDay ==
    /\ status = "mounted"
    /\ today < MaxDay
    /\ today' = today + 1
    /\ last' = Op("newDay")
    /\ UNCHANGED <<status, workerVars, appVars, hookVars, autoStart, mcqVars, countdown, probe>>

\* What the stored item can hold when the page is first opened: nothing, an
\* empty text, a text that is not JSON, the text null, an object without the
\* fields, or a record written on an earlier day or earlier on this day.
InitialStorage ==
    { Stored(k, ZeroStatistics(0)) :
        k \in {"absent", "emptyText", "garbage", "null", "emptyObject"} }
    \cup { Stored("object", [ZeroStatistics(d) EXCEPT !.totalFocusTime = 1,
                                                     !.completedSessions = 1])
             : d \in {0, 1} }

Init ==
    /\ status = "boot"
    /\ timerState = InitialTimerState
    /\ settings = PRESETS("focus")
    /\ currentPreset = "focus"
    /\ statistics = ZeroStatistics(0)
    /\ storage \in InitialStorage
    /\ today = 1
    /\ time = InitialTime
    /\ isActive = FALSE
    /\ intervalRef = NoInterval
    /\ timers = 0
    /\ wakeLockApi = "unsupported"
    /\ wakeLockRef = FALSE
    /\ wakeLockPending = 0
    /\ wakeLocks = 0
    /\ timerInterval = FALSE
    /\ currentTime = InitialTime
    /\ isRunning = FALSE
    /\ autoStart = NoAutoStart
    /\ mcqMode = FALSE
    /\ mcqInterval = InitialMcqInterval
    /\ mcqCountdown = 0
    /\ mcqIntervalRef = FALSE
    /\ reminder = 0
    /\ countdown = NoCountdown
    /\ probe = NoProbe
    /\ last = Op("init")

Next ==
    \/ Mount
    \/ Reload
    \/ Tick
    \/ AutoStart
    \/ handleStartTimer
    \/ handlePauseTimer
    \/ handleResetTimer
    \/ \E preset \in PresetNames : handlePresetChange(preset)
    \/ \E kv \in SettingInputs : handleSettingChange(kv[1], kv[2])
    \/ resetStatistics

Spec == Init /\ [][Next]_vars

\* The same page with midnight passing while it is open.
NextDays == Next \/ NewDay

SpecDays == Init /\ [][NextDays]_vars

-----------------------------------------------------------------------------
(* The hook on its own: start, pause and reset called with any duration,   *)
(* and onComplete observed as a signal.                                    *)

ClockStart(d) ==
    /\ startTimer(d, NoClosure)
    /\ probe' = [started |-> d, elapsed |-> 0, signals |-> 0, clean |-> TRUE]
    /\ last' = OpWith("start", d, isActive, "hook")
    /\ UNCHANGED <<status, workerVars, appVars, today, autoStart, mcqVars, countdown>>

ClockPause ==
    /\ pauseTimer
    /\ probe' = [probe EXCEPT !.clean = FALSE]
    /\ last' = OpWith("pause", time, isActive, "hook")
    /\ UNCHANGED <<status, workerVars, appVars, today, autoStart, mcqVars, countdown>>

ClockReset(d) ==
    /\ resetTimer(d)
    /\ probe' = [probe EXCEPT !.clean = FALSE]
    /\ last' = OpWith("reset", d, isActive, "hook")
    /\ UNCHANGED <<status, workerVars, appVars, today, autoStart, mcqVars, countdown>>

\* A tick that does nothing once the remaining time has run out.
ClockTickWithoutCompletion ==
    /\ intervalRef.set
    /\ ~TimeIsUp(time)
    /\ time' = Decrement(time)
    /\ probe' = [probe EXCEPT !.elapsed = @ + 1]
    /\ last' = OpWith("tick", Duration(0, 0), FALSE, "hook")
    /\ UNCHANGED <<isActive, intervalRef, timers, status, workerVars, wakeVars, appVars,
                   today, autoStart, mcqVars, countdown>>

ClockTick ==
    /\ intervalRef.set
    /\ IF TimeIsUp(time)
         THEN /\ isActive' = FALSE
              /\ timers' = Cleared(intervalRef, timers)
              /\ intervalRef' = NoInterval
              /\ UNCHANGED time
              /\ probe' = [probe EXCEPT !.elapsed = @ + 1, !.signals = @ + 1]
              /\ last' = OpWith("complete", Duration(0, 0), FALSE, "hook")
         ELSE /\ time' = Decrement(time)
              /\ UNCHANGED <<isActive, intervalRef, timers>>
              /\ probe' = [probe EXCEPT !.elapsed = @ + 1]
              /\ last' = OpWith("tick", Duration(0, 0), FALSE, "hook")
    /\ UNCHANGED <<status, workerVars, wakeVars, appVars, today, autoStart, mcqVars,
                   countdown>>

InitClock ==
    /\ status = "mounted"
    /\ timerState = InitialTimerState
    /\ settings = PRESETS("focus")
    /\ currentPreset = "focus"
    /\ statistics = ZeroStatistics(0)
    /\ storage = Stringify(ZeroStatistics(0))
    /\ today = 0
    /\ time = InitialTime
    /\ isActive = FALSE
    /\ intervalRef = NoInterval
    /\ timers = 0
    /\ wakeLockApi = "unsupported"
    /\ wakeLockRef = FALSE
    /\ wakeLockPending = 0
    /\ wakeLocks = 0
    /\ timerInterval = FALSE
    /\ currentTime = InitialTime
    /\ isRunning = FALSE
    /\ autoStart = NoAutoStart
    /\ mcqMode = FALSE
    /\ mcqInterval = InitialMcqInterval
    /\ mcqCountdown = 0
    /\ mcqIntervalRef = FALSE
    /\ reminder = 0
    /\ countdown = NoCountdown
    /\ probe = NoProbe
    /\ last = Op("init")

NextClock ==
    \/ \E d \in ClockDurations : ClockStart(d)
    \/ ClockPause
    \/ \E d \in ClockDurations : ClockReset(d)
    \/ ClockTick

SpecClock == InitClock /\ [][NextClock]_vars

-----------------------------------------------------------------------------
(* The worker timer (timerWorker.ts) on its own: the messages it handles   *)
(* and its interval; the messages it posts are observed as signals.        *)

\* startTimer(): if (timerInterval) return; timerInterval = setInterval(...)
workerStartTimer == timerInterval' = (IF timerInterval THEN timerInterval ELSE TRUE)

\* A START_TIMER that does not look at isRunning.
StartTimerAlways(t) ==
    /\ isRunning' = TRUE
    /\ currentTime' = t
    /\ workerStartTimer

START_TIMER(t) ==
    IF ~isRunning
        THEN /\ isRunning' = TRUE
             /\ currentTime' = t
             /\ workerStartTimer
        ELSE UNCHANGED workerVars

PAUSE_TIMER ==
    /\ isRunning' = FALSE
    /\ timerInterval' = FALSE
    /\ UNCHANGED currentTime

RESET_TIMER(t) ==
    /\ isRunning' = FALSE
    /\ timerInterval' = FALSE
    /\ currentTime' = t

WorkerStart(d) ==
    /\ START_TIMER(d)
    /\ probe' = IF isRunning THEN probe
                 ELSE [started |-> d, elapsed |-> 0, signals |-> 0, clean |-> TRUE]
    /\ last' = OpWith("start", d, isRunning, "worker")
    /\ UNCHANGED <<status, appVars, today, hookVars, autoStart, mcqVars, countdown>>

WorkerPause ==
    /\ PAUSE_TIMER
    /\ probe' = [probe EXCEPT !.clean = FALSE]
    /\ last' = OpWith("pause", currentTime, isRunning, "worker")
    /\ UNCHANGED <<status, appVars, today, hookVars, autoStart, mcqVars, countdown>>

\* RESET_TIMER posts a TIMER_TICK message, never a TIMER_COMPLETE.
WorkerReset(d) ==
    /\ RESET_TIMER(d)
    /\ probe' = [probe EXCEPT !.clean = FALSE]
    /\ last' = OpWith("reset", d, isRunning, "worker")
    /\ UNCHANGED <<status, appVars, today, hookVars, autoStart, mcqVars, countdown>>

\* One firing of the worker's interval: TIMER_COMPLETE or TIMER_TICK is posted
\* unless the worker is not running.
WorkerTick ==
    /\ timerInterval
    /\ IF ~isRunning
         THEN UNCHANGED <<workerVars, probe>> /\ last' = Op("idle")
         ELSE IF TimeIsUp(currentTime)
           THEN /\ isRunning' = FALSE
                /\ timerInterval' = FALSE
                /\ UNCHANGED currentTime
                /\ probe' = [probe EXCEPT !.elapsed = @ + 1, !.signals = @ + 1]
                /\ last' = OpWith("complete", Duration(0, 0), FALSE, "worker")
           ELSE /\ currentTime' = Decrement(currentTime)
                /\ UNCHANGED <<isRunning, timerInterval>>
                /\ probe' = [probe EXCEPT !.elapsed = @ + 1]
                /\ last' = OpWith("tick", Duration(0, 0), FALSE, "worker")
    /\ UNCHANGED <<status, appVars, today, hookVars, autoStart, mcqVars, countdown>>

NextWorker ==
    \/ \E d \in ClockDurations : WorkerStart(d)
    \/ WorkerPause
    \/ \E d \in ClockDurations : WorkerReset(d)
    \/ WorkerTick

\* Either clock exercised with the other left as constructed.
HookUntouched == time = InitialTime /\ ~isActive /\ timers = 0

WorkerUntouched == currentTime = InitialTime /\ ~isRunning /\ ~timerInterval

NextClocks ==
    \/ WorkerUntouched /\ NextClock
    \/ HookUntouched /\ NextWorker

SpecClocks == InitClock /\ [][NextClocks]_vars

\* setInterval calls its callback again and again for as long as the
\* interval is live: a tick that stays possible is eventually made.
FairClocks == WF_vars(ClockTick) /\ WF_vars(WorkerTick)

\* The durations the clocks are started and reset with under fairness: whole
\* minutes, and the longest duration below each.
FairDurations == {Duration(m, s) : m \in 0 .. MaxMinutes, s \in {0, 59}}

NextClocksFair ==
    \/ /\ WorkerUntouched
       /\ \/ \E d \in FairDurations : ClockStart(d)
          \/ ClockPause
          \/ \E d \in FairDurations : ClockReset(d)
          \/ ClockTick
    \/ /\ HookUntouched
       /\ \/ \E d \in FairDurations : WorkerStart(d)
          \/ WorkerPause
          \/ \E d \in FairDurations : WorkerReset(d)
          \/ WorkerTick

SpecClocksFair == InitClock /\ [][NextClocksFair]_vars /\ FairClocks

-----------------------------------------------------------------------------
(* The hook with the screen wake lock: the browser either lacks the API,   *)
(* rejects every request or grants every request, and a request settles    *)
(* some time after the start that sent it.                                 *)

\* The sentinels and pending requests the hook is followed up to.
MaxWakeLocks == 2

\* The durations the hook is started and reset with here.
WakeDurations == {Duration(0, 0), Duration(0, 1), Duration(1, 0)}

\* The await of requestWakeLock resumes: a granted sentinel is stored in the
\* ref, over whatever the ref held; a rejection is caught and logged.
WakeLockSettled ==
    /\ wakeLockPending > 0
    /\ wakeLockPending' = wakeLockPending - 1
    /\ IF wakeLockApi = "granted"
         THEN /\ wakeLockRef' = TRUE
              /\ wakeLocks' = wakeLocks + 1
         ELSE UNCHANGED <<wakeLockRef, wakeLocks>>
    /\ last' = OpWith("wakeLock", Duration(0, 0), wakeLockApi = "granted", "hook")
    /\ UNCHANGED <<status, workerVars, appVars, today, autoStart, mcqVars, countdown,
                   probe, time, isActive, intervalRef, timers, wakeLockApi>>

WakeStart(d) ==
    /\ wakeLockPending + wakeLocks < MaxWakeLocks
    /\ ClockStart(d)

InitWake ==
    /\ status = "mounted"
    /\ timerState = InitialTimerState
    /\ settings = PRESETS("focus")
    /\ currentPreset = "focus"
    /\ statistics = ZeroStatistics(0)
    /\ storage = Stringify(ZeroStatistics(0))
    /\ today = 0
    /\ time = InitialTime
    /\ isActive = FALSE
    /\ intervalRef = NoInterval
    /\ timers = 0
    /\ wakeLockApi \in WakeLockApis
    /\ wakeLockRef = FALSE
    /\ wakeLockPending = 0
    /\ wakeLocks = 0
    /\ timerInterval = FALSE
    /\ currentTime = InitialTime
    /\ isRunning = FALSE
    /\ autoStart = NoAutoStart
    /\ mcqMode = FALSE
    /\ mcqInterval = InitialMcqInterval
    /\ mcqCountdown = 0
    /\ mcqIntervalRef = FALSE
    /\ reminder = 0
    /\ countdown = NoCountdown
    /\ probe = NoProbe
    /\ last = Op("init")

NextWake ==
    \/ \E d \in WakeDurations : WakeStart(d)
    \/ ClockPause
    \/ \E d \in WakeDurations : ClockReset(d)
    \/ ClockTick
    \/ WakeLockSettled

SpecWake == InitWake /\ [][NextWake]_vars

-----------------------------------------------------------------------------
(* The page with the reminder: the switch, the interval input and the      *)
(* reminder's interval.  The page has been rendered with nothing stored,   *)
(* the custom preset selected and one-minute durations typed; the custom   *)
(* preset can be selected again, which resets the Clock.                   *)

\* The values typed into the custom preset's inputs before the reminder is
\* exercised.
TypedSettings ==
    [focusTime |-> 1, shortBreak |-> 1, longBreak |-> 1, longBreakInterval |-> 2]

InitReminder ==
    /\ status = "mounted"
    /\ timerState = InitialTimerState
    /\ settings = TypedSettings
    /\ currentPreset = "custom"
    /\ statistics = ZeroStatistics(1)
    /\ storage = Stringify(ZeroStatistics(1))
    /\ today = 1
    /\ time = InitialTime
    /\ isActive = FALSE
    /\ intervalRef = NoInterval
    /\ timers = 0
    /\ wakeLockApi = "unsupported"
    /\ wakeLockRef = FALSE
    /\ wakeLockPending = 0
    /\ wakeLocks = 0
    /\ timerInterval = FALSE
    /\ currentTime = InitialTime
    /\ isRunning = FALSE
    /\ autoStart = NoAutoStart
    /\ mcqMode = FALSE
    /\ mcqInterval = InitialMcqInterval
    /\ mcqCountdown = 0
    /\ mcqIntervalRef = FALSE
    /\ reminder = 0
    /\ countdown = NoCountdown
    /\ probe = NoProbe
    /\ last = Op("init")

NextReminder ==
    \/ Tick
    \/ AutoStart
    \/ handleStartTimer
    \/ handlePauseTimer
    \/ handleResetTimer
    \/ handlePresetChange("custom")
    \/ \E checked \in BOOLEAN : setMcqMode(checked)
    \/ \E value \in McqIntervalInputs : setMcqInterval(value)
    \/ McqTick

SpecReminder == InitReminder /\ [][NextReminder]_vars

\* The same page with the statistics reset button, the reminder switched on
\* and set to fire every second.
NextStatistics ==
    \/ Tick
    \/ AutoStart
    \/ handleStartTimer
    \/ handlePauseTimer
    \/ handleResetTimer
    \/ setMcqMode(TRUE)
    \/ setMcqInterval(1)
    \/ McqTick
    \/ resetStatistics

SpecStatistics == InitReminder /\ [][NextStatistics]_vars

\* The page with the statistics reset button and midnight passing, the
\* reminder left switched off.
NextStatisticsDays ==
    \/ Tick
    \/ AutoStart
    \/ handleStartTimer
    \/ handlePauseTimer
    \/ handleResetTimer
    \/ resetStatistics
    \/ NewDay

SpecStatisticsDays == InitReminder /\ [][NextStatisticsDays]_vars

-----------------------------------------------------------------------------
(* The page with durations typed into the number inputs of the custom      *)
(* preset: an emptied input gives Number('') = 0, and the min attribute    *)
(* does not keep a typed 0 or -1 out of onChange.                          *)

TypedInputs ==
    {<<"focusTime", 0>>, <<"focusTime", -1>>, <<"focusTime", 1>>, <<"shortBreak", 0>>}

NextTyped ==
    \/ Tick
    \/ AutoStart
    \/ handleStartTimer
    \/ handlePauseTimer
    \/ handleResetTimer
    \/ \E input \in TypedInputs : handleSettingChange(input[1], input[2])

SpecTyped == InitReminder /\ [][NextTyped]_vars

-----------------------------------------------------------------------------
(* Properties. *)

\* The step is a firing of the reminder interval.
McqTicks == last'.op = "mcqTick"

\* The step fires a reminder.
Reminds == last'.op = "mcqTick" /\ last'.flag

Breaks == {"shortBreak", "longBreak"}

\* The step is the firing of the interval that finds the time run out.
Completes == last'.op = "complete"

\* The settings are ones the settings form accepts.
ValidSettings(st) ==
    /\ st.focusTime >= 1
    /\ st.shortBreak >= 1
    /\ st.longBreak >= 1
    /\ st.longBreakInterval >= 1

\* C1: a completion that occurs while the phase is Focus sets sessionCount
\* to n+1, and the phase to LongBreak when (n+1) mod k = 0 and to ShortBreak
\* otherwise, n the session count and k the configured longBreakInterval.
C1_FocusCompletion ==
    [][ (Completes /\ timerState.phase = "focus" /\ ValidSettings(settings))
          => LET n == timerState.sessionCount
                 k == settings.longBreakInterval
             IN /\ timerState'.sessionCount = n + 1
                /\ timerState'.phase =
                      IF (n + 1) % k = 0 THEN "longBreak" ELSE "shortBreak" ]_vars

\* C2: a completion that occurs while the phase is ShortBreak or LongBreak
\* sets the phase to Focus and leaves sessionCount unchanged.
C2_BreakCompletion ==
    [][ (Completes /\ timerState.phase \in Breaks)
          => /\ timerState'.phase = "focus"
             /\ timerState'.sessionCount = timerState.sessionCount ]_vars

\* C3, as stated: after start(D) and exactly D.minutes*60 + D.seconds ticks,
\* with no pause or reset in between, the remaining time is 0:00 and exactly
\* one completion signal has been emitted, and none after fewer ticks.
C3_CompletionWithinDuration ==
    (probe.clean /\ Secs(probe.started) >= 1) =>
        /\ probe.elapsed < Secs(probe.started) => probe.signals = 0
        /\ probe.elapsed = Secs(probe.started) => Secs(time) = 0 /\ probe.signals = 1

\* C3, amended: after exactly D.minutes*60 + D.seconds ticks the remaining
\* time is 0:00 and no completion signal has been emitted; the next tick
\* emits exactly one completion signal and stops the Clock.
C3_CompletionOnNextTick ==
    probe.clean =>
        /\ probe.elapsed <= Secs(probe.started) =>
              /\ probe.signals = 0
              /\ isActive
              /\ Secs(time) = Secs(probe.started) - probe.elapsed
        /\ probe.elapsed > Secs(probe.started) =>
              /\ probe.elapsed = Secs(probe.started) + 1
              /\ probe.signals = 1
              /\ Secs(time) = 0
              /\ ~isActive

\* C3 witness: a countdown of 1:30 has completed on its 91st tick.
C3_Witness ==
    /\ probe.clean
    /\ probe.started = Duration(1, 30)
    /\ probe.elapsed = 91
    /\ probe.signals = 1
    /\ ~isActive

\* C4: a countdown paused at remaining time r and resumed with Start
\* continues from r: the first tick after the resume yields r minus one second.
C4_ResumeContinues ==
    [][ (last.op = "start" /\ last.flag /\ Secs(last.at) >= 1 /\ last'.op = "tick")
          => Secs(time') = Secs(last.at) - 1 ]_vars

\* C5: the manual reset yields phase Focus, sessionCount 0 and a Clock that
\* is not running with the configured focus duration remaining, and leaves
\* the statistics (counters and date key) unchanged.
C5_ManualReset ==
    [][ last'.op = "reset"
          => /\ timerState' = [phase |-> "focus", sessionCount |-> 0]
             /\ ~isActive'
             /\ ~intervalRef'.set
             /\ time' = Duration(settings.focusTime, 0)
             /\ settings' = settings
             /\ statistics' = statistics ]_vars

\* C5 witness: a reset of a running Clock in the LongBreak phase, after a
\* completed session.
C5_Witness ==
    /\ last.op = "reset"
    /\ last.flag
    /\ last.note = "longBreak"
    /\ statistics.completedSessions >= 1
    /\ timerState = [phase |-> "focus", sessionCount |-> 0]

\* C6: the completion of a focus countdown increases totalFocusTime by the
\* configured focus minutes and completedSessions by 1, and leaves
\* totalBreakTime and mcqReminders unchanged.
C6_FocusCredit ==
    [][ (Completes /\ countdown.kind = "focus" /\ ValidSettings(settings))
          => statistics' = [statistics EXCEPT
                 !.totalFocusTime = @ + settings.focusTime,
                 !.completedSessions = @ + 1] ]_vars

\* C7: the completion of a break countdown increases totalBreakTime by the
\* configured minutes of that break phase and leaves totalFocusTime,
\* completedSessions and mcqReminders unchanged.
C7_BreakCredit ==
    [][ (Completes /\ countdown.kind \in Breaks /\ ValidSettings(settings))
          => statistics' = [statistics EXCEPT
                 !.totalBreakTime = @ + (IF countdown.kind = "longBreak"
                                            THEN settings.longBreak
                                            ELSE settings.shortBreak)] ]_vars

\* C8: at startup a stored record of another day gives all-zero counters
\* with today's date key, and a stored record of today is loaded unchanged.
C8_LoadAtStartup ==
    [][ (last'.op = "mount" /\ storage.kind = "object")
          => /\ status' = "mounted"
             /\ storage.rec.todayDate # today =>
                    statistics' = [totalFocusTime |-> 0, totalBreakTime |-> 0,
                                   completedSessions |-> 0, mcqReminders |-> 0,
                                   todayDate |-> today]
             /\ storage.rec.todayDate = today => statistics' = storage.rec ]_vars

\* C8 witness: a startup that found a stored record of another day.
C8_Witness ==
    /\ last.op = "mount"
    /\ last.note = "object"
    /\ last.flag
    /\ status = "mounted"
    /\ statistics.todayDate = today
    /\ statistics.completedSessions = 0

\* C9: in every state of the running page the statistics date key is the
\* current calendar day.
C9_DateKeyIsToday ==
    status = "mounted" => statistics.todayDate = today

\* C10: when the stored record is missing or malformed, startup does not
\* fail and the statistics are all-zero counters with today's date key.
C10_MalformedStorage ==
    [][ (last'.op = "mount" /\ storage.kind # "object")
          => /\ status' = "mounted"
             /\ statistics' = ZeroStatistics(today) ]_vars

\* C11: while the reminder is enabled, the Clock is running and the phase is
\* Focus, with an interval I >= 1 the n-th firing of the reminder interval
\* after arming fires a reminder exactly when n is a multiple of I, and each
\* reminder adds one to mcqReminders.
C11_ReminderEveryInterval ==
    [][ (McqTicks /\ mcqInterval >= 1)
          => /\ mcqMode /\ isActive /\ timerState.phase = "focus"
             /\ reminder' = reminder + 1
             /\ last'.flag <=> (reminder' % mcqInterval = 0)
             /\ statistics'.mcqReminders =
                    statistics.mcqReminders + (IF last'.flag THEN 1 ELSE 0) ]_vars

\* C11 witness: with an interval of two seconds the reminder has fired on
\* the second and on the fourth tick after arming, and not on the third.
C11_Witness ==
    /\ mcqInterval = 2
    /\ reminder = 4
    /\ last.op = "mcqTick"
    /\ last.flag
    /\ statistics.mcqReminders = 2
    /\ mcqCountdown = 2

\* C12: in a state of the running page where the reminder is disabled, or
\* the Clock is not running, or the phase is ShortBreak or LongBreak, no
\* step fires a reminder and no step increases mcqReminders.
C12_NoReminderOutsideFocus ==
    [][ (status = "mounted"
           /\ (~mcqMode \/ ~isActive \/ timerState.phase \in {"shortBreak", "longBreak"}))
          => /\ ~Reminds
             /\ ~McqTicks
             /\ statistics'.mcqReminders <= statistics.mcqReminders ]_vars

\* C12 witness: the reminder is enabled and has fired during the focus
\* countdown; the auto-started break has been ticking for over half a
\* minute with no reminder interval live.
C12_Witness ==
    /\ mcqMode
    /\ mcqInterval = 1
    /\ statistics.mcqReminders >= 1
    /\ timerState.phase = "shortBreak"
    /\ isActive
    /\ countdown.kind = "shortBreak"
    /\ Secs(time) < 30
    /\ ~mcqIntervalRef
    /\ mcqCountdown = 0

\* C13: the auto-start that follows a focus completion with no user action
\* in between leaves the Clock running with the configured duration of the
\* selected break phase remaining: longBreak minutes for LongBreak,
\* shortBreak minutes for ShortBreak.
C13_AutoStartedBreak ==
    [][ (last.op = "complete" /\ last.note = "focus" /\ last'.op = "autoStart"
           /\ ValidSettings(settings))
          => /\ isActive'
             /\ timerState.phase \in Breaks
             /\ time' = Duration(BreakTime(timerState.phase, settings), 0) ]_vars

\* C14: after the completion of a break countdown the Clock is not running,
\* the next step is not an automatic start, and the Clock becomes running
\* only by the Start action.
C14_NoAutoStartAfterBreak ==
    [][ (last.op = "complete" /\ last.note \in Breaks)
          => /\ ~isActive
             /\ last'.op # "autoStart"
             /\ isActive' => last'.op = "start" ]_vars

\* Neither clock is running and neither has a live interval.
Stopped == ~isActive /\ timers = 0 /\ ~isRunning /\ ~timerInterval

\* The step is a firing of a clock's interval.
ClockTicks == last'.op \in {"tick", "complete"}

\* C15: a started countdown emits at most one completion signal; the tick
\* that finds the remaining time at 0:00 sets running to false and cancels
\* the cadence; a stopped Clock does not tick, and runs again only by a
\* start invoked from outside.
C15_OneCompletion ==
    [][ /\ probe'.signals <= 1
        /\ (last'.op = "complete" /\ last'.note = "hook")
              => TimeIsUp(time) /\ ~isActive' /\ ~intervalRef'.set /\ timers' = 0
        /\ (last'.op = "complete" /\ last'.note = "worker")
              => TimeIsUp(currentTime) /\ ~isRunning' /\ ~timerInterval'
        /\ last.op = "complete" => Stopped
        /\ Stopped => ~ClockTicks /\ (Stopped' \/ last'.op = "start") ]_vars

\* C15 witness: a countdown of 0:59 of the hook has completed on its 60th
\* tick.
C15_Witness ==
    /\ last.op = "complete"
    /\ last.note = "hook"
    /\ probe.started = Duration(0, 59)
    /\ probe.elapsed = 60
    /\ probe.signals = 1
    /\ Stopped

\* C16: a pause leaves the remaining time as it was and a reset sets it to
\* the duration given; both leave the Clock not running with no cadence, and
\* while the Clock is not running no tick occurs, the remaining time changes
\* only by a start or a reset and no completion signal is emitted.
C16_PauseResetFrame ==
    [][ /\ (last'.op = "pause" /\ last'.note = "hook")
              => time' = time /\ ~isActive' /\ ~intervalRef'.set /\ timers' = 0
        /\ (last'.op = "pause" /\ last'.note = "worker")
              => currentTime' = currentTime /\ ~isRunning' /\ ~timerInterval'
        /\ (last'.op = "reset" /\ last'.note = "hook")
              => time' = last'.at /\ ~isActive' /\ ~intervalRef'.set /\ timers' = 0
        /\ (last'.op = "reset" /\ last'.note = "worker")
              => currentTime' = last'.at /\ ~isRunning' /\ ~timerInterval'
        /\ last'.op \in {"pause", "reset"} => probe'.signals = probe.signals
        /\ (Stopped /\ last'.op # "start")
              => /\ ~ClockTicks
                 /\ probe'.signals = probe.signals
                 /\ last'.op # "reset" => time' = time /\ currentTime' = currentTime ]_vars

\* C16 witness: the hook, running, was reset to 0:00 and then paused: the
\* remaining time is 0:00, the Clock is not running and no completion signal
\* has been emitted.
C16_Witness ==
    /\ last.op = "pause"
    /\ last.note = "hook"
    /\ ~last.flag
    /\ last.at = Duration(0, 0)
    /\ time = Duration(0, 0)
    /\ probe.started = Duration(1, 30)
    /\ probe.signals = 0
    /\ Stopped

\* C17: in the hook, a start leaves the remaining time at the duration given
\* and the Clock running, also when it was running before; at most one
\* cadence is live, and the Clock is running exactly when one is.
C17_OneCadence ==
    /\ timers <= 1
    /\ isActive <=> timers = 1
    /\ isActive <=> intervalRef.set
    /\ last.op = "start" => time = last.at /\ isActive

\* C17 witness: a start with 1:30 found the Clock running with another
\* remaining time.
C17_Witness ==
    /\ last.op = "start"
    /\ last.flag
    /\ last.at = Duration(1, 30)
    /\ probe.started = Duration(1, 30)
    /\ time = Duration(1, 30)
    /\ timers = 1

\* C18: a preset selection made while the Clock is not running, or that
\* selects the custom preset, leaves the Clock not running with the new
\* preset's focus duration remaining and leaves phase and sessionCount
\* unchanged.
C18_PresetResetsClock ==
    [][ (last'.op = "preset" /\ (~isActive \/ currentPreset' = "custom"))
          => /\ ~isActive'
             /\ ~intervalRef'.set
             /\ timers' = 0
             /\ time' = Duration(PRESETS(currentPreset').focusTime, 0)
             /\ settings' = PRESETS(currentPreset')
             /\ timerState' = timerState ]_vars

\* C18 witness: the custom preset was selected while the Clock was running
\* in a break phase after a completed session.
C18_Witness ==
    /\ last.op = "preset"
    /\ last.flag
    /\ last.note \in Breaks
    /\ currentPreset = "custom"
    /\ timerState.phase \in Breaks
    /\ timerState.sessionCount = 1
    /\ ~isActive
    /\ time = Duration(25, 0)

\* C19: a selection of a non-custom preset made while the Clock is running
\* leaves the running flag, the remaining time, the cadence, the phase and
\* sessionCount unchanged.
C19_PresetKeepsRunningClock ==
    [][ (last'.op = "preset" /\ isActive /\ currentPreset' # "custom")
          => /\ isActive'
             /\ time' = time
             /\ intervalRef' = intervalRef
             /\ timers' = timers
             /\ timerState' = timerState ]_vars

\* C19 witness: the deepWork preset was selected while a break countdown
\* was running with less than a minute remaining.
C19_Witness ==
    /\ last.op = "preset"
    /\ last.flag
    /\ last.note \in Breaks
    /\ currentPreset = "deepWork"
    /\ settings = PRESETS("deepWork")
    /\ isActive
    /\ timers = 1
    /\ Secs(time) < 60
    /\ Secs(time) > 0

\* C20: in every step of the running page sessionCount stays the same, or
\* increases by exactly 1 while the phase changes from Focus to ShortBreak
\* or LongBreak, or is set to 0 by the manual reset.
C20_SessionCountSteps ==
    [][ (status = "mounted" /\ status' = "mounted")
          => \/ timerState'.sessionCount = timerState.sessionCount
             \/ /\ timerState'.sessionCount = timerState.sessionCount + 1
                /\ timerState.phase = "focus"
                /\ timerState'.phase \in Breaks
             \/ /\ timerState'.sessionCount = 0
                /\ last'.op = "reset" ]_vars

\* C21, as stated: while the Clock is running the settings do not change
\* unless the active preset is custom.
C21_SettingsFixedWhileRunning ==
    [][ (isActive /\ isActive' /\ settings' # settings)
          => (currentPreset = "custom" \/ currentPreset' = "custom") ]_vars

\* C21, amended: while the Clock is running the settings change only by a
\* preset selection, which sets them to the selected preset's values, or,
\* while the active preset is custom, by an edit of one value (a reload of
\* the page aside).
C21_SettingsChangeByUserOnly ==
    [][ (isActive /\ status' = "mounted" /\ settings' # settings)
          => \/ /\ last'.op = "preset"
                /\ settings' = PRESETS(currentPreset')
             \/ /\ last'.op = "setting"
                /\ currentPreset = "custom"
                /\ currentPreset' = "custom"
                /\ \E key \in DOMAIN settings :
                      \A other \in DOMAIN settings \ {key} :
                          settings'[other] = settings[other] ]_vars

\* C21 witness: the exam preset was selected while a focus countdown was
\* running, and the settings are the exam preset's with the Clock running.
C21_Witness ==
    /\ last.op = "preset"
    /\ last.flag
    /\ last.note = "focus"
    /\ currentPreset = "exam"
    /\ settings = PRESETS("exam")
    /\ isActive
    /\ countdown.kind = "focus"

\* C22: in every state of the running page, that is after every mutation of
\* the statistics and before the next one, the stored record equals the
\* in-memory statistics field for field.
C22_StoredEqualsMemory ==
    status = "mounted"
        => /\ storage.kind = "object"
           /\ \A field \in DOMAIN statistics : storage.rec[field] = statistics[field]
           /\ DOMAIN storage.rec = DOMAIN statistics

\* C22 witness: after a focus completion, a break completion and a reminder
\* the stored record holds all three.
C22_Witness ==
    /\ statistics.completedSessions = 1
    /\ statistics.totalBreakTime = 1
    /\ statistics.mcqReminders = 1
    /\ storage.rec.completedSessions = 1
    /\ storage.rec.totalFocusTime = 1
    /\ storage.rec.totalBreakTime = 1
    /\ storage.rec.mcqReminders = 1

\* C23: the statistics reset is enabled in every state of the running page;
\* it sets the four counters to 0 and the date key to the current day, and
\* leaves the Clock's running flag and remaining time, the phase,
\* sessionCount and the settings unchanged.
C23_StatisticsReset ==
    /\ [](status = "mounted" => ENABLED resetStatistics)
    /\ [][ last'.op = "resetStatistics"
             => /\ statistics' = [totalFocusTime |-> 0, totalBreakTime |-> 0,
                                  completedSessions |-> 0, mcqReminders |-> 0,
                                  todayDate |-> today]
                /\ isActive' = isActive
                /\ time' = time
                /\ intervalRef' = intervalRef
                /\ timerState' = timerState
                /\ settings' = settings
                /\ currentPreset' = currentPreset ]_vars

\* C23 witness: the statistics were reset while a break countdown was
\* running, on the day after the one the statistics were dated with.
C23_Witness ==
    /\ last.op = "resetStatistics"
    /\ isActive
    /\ timerState.phase \in Breaks
    /\ timerState.sessionCount = 1
    /\ Secs(time) < 60
    /\ today = 2
    /\ statistics = ZeroStatistics(2)
    /\ storage.rec.todayDate = 2


\* C24: in every state reached by a pause, a reset or the completion of a
\* countdown of the hook, no wake lock is held.
C24_ReleasedWhenStopped ==
    (last.op \in {"pause", "reset", "complete"} /\ last.note = "hook")
        => ~wakeLockRef /\ wakeLocks = 0

\* C25: whether the wake lock is unsupported, rejected or granted, a start
\* leaves the Clock running with the requested time and the countdown
\* completes on the same tick; the settling of a request changes nothing of
\* the Clock, a rejected one nothing but the request; a release with no lock
\* in the ref changes nothing of the wake lock.
C25_ClockWithoutWakeLock ==
    [][ /\ (last'.op = "start" /\ last'.note = "hook") => isActive' /\ time' = last'.at
        /\ probe'.clean =>
              /\ probe'.elapsed <= Secs(probe'.started) =>
                    /\ probe'.signals = 0
                    /\ isActive'
                    /\ Secs(time') = Secs(probe'.started) - probe'.elapsed
              /\ probe'.elapsed > Secs(probe'.started) =>
                    /\ probe'.elapsed = Secs(probe'.started) + 1
                    /\ probe'.signals = 1
                    /\ ~isActive'
        /\ last'.op = "wakeLock" =>
              /\ UNCHANGED <<time, isActive, intervalRef, timers, probe>>
              /\ wakeLockApi # "granted" => UNCHANGED <<wakeLockRef, wakeLocks>>
        /\ wakeLockApi = "unsupported" => wakeLockPending' = 0 /\ wakeLocks' = 0
        /\ (last'.op \in {"pause", "reset"} /\ ~wakeLockRef)
              => UNCHANGED <<wakeLockRef, wakeLocks, wakeLockPending>> ]_vars

\* C25 witness: every request was rejected, and a countdown of 1:00 has
\* completed on its 61st tick.
C25_Witness ==
    /\ wakeLockApi = "denied"
    /\ wakeLockPending = 0
    /\ ~wakeLockRef
    /\ probe.clean
    /\ probe.started = Duration(1, 0)
    /\ probe.elapsed = 61
    /\ probe.signals = 1
    /\ ~isActive


\* C26: no countdown is started with a configured duration of zero or less,
\* and no completion of such a countdown is recorded in the statistics.
C26_NoZeroDuration ==
    [][ /\ last'.op \in {"start", "autoStart"} => Secs(time') >= 1
        /\ (last'.op = "complete"
              /\ PhaseMinutes(intervalRef.closure.phase, intervalRef.closure.settings) <= 0)
              => statistics' = statistics ]_vars


\* C27: a manual reset made while an auto-start is pending leaves the Clock
\* not running with the focus duration, phase Focus and sessionCount 0, and
\* the pending auto-start does not start a countdown after it.
C27_ResetCancelsAutoStart ==
    [][ /\ (last'.op = "reset" /\ autoStart.set)
              => /\ ~isActive'
                 /\ time' = Duration(settings'.focusTime, 0)
                 /\ timerState' = InitialTimerState
        /\ (last.op = "reset" /\ ~isActive /\ timerState = InitialTimerState)
              => last'.op # "autoStart" ]_vars


\* C28: an auto-start is scheduled only by the completion of a focus
\* countdown, in the step that sets the break phase, counts the session and
\* adds its focus minutes and completed session to the statistics; when the
\* auto-start fires, the phase is still that break phase and sessionCount
\* still includes the completed session.
C28_AutoStartAfterCompletion ==
    [][ /\ (autoStart'.set /\ ~autoStart.set)
              => /\ last'.op = "complete"
                 /\ last'.note = "focus"
                 /\ timerState'.phase = autoStart'.phase
                 /\ timerState'.sessionCount = autoStart'.closure.sessionCount + 1
                 /\ statistics'.completedSessions = statistics.completedSessions + 1
                 /\ statistics'.totalFocusTime
                       = statistics.totalFocusTime + autoStart'.closure.settings.focusTime
        /\ last'.op = "autoStart"
              => /\ autoStart.set
                 /\ timerState.phase \in Breaks
                 /\ timerState.phase = autoStart.phase
                 /\ timerState.sessionCount = autoStart.closure.sessionCount + 1 ]_vars


\* A remaining time is never negative and its seconds are below 60.
Normalised(t) == t.minutes >= 0 /\ t.seconds \in 0 .. 59

\* C29: started and reset with minutes >= 0 and seconds in 0..59, the
\* remaining time of the hook and of the worker always has minutes >= 0 and
\* seconds in 0..59, and each tick that does not complete the countdown
\* lowers minutes*60 + seconds by exactly 1.
C29_TimeNormalised ==
    /\ [](Normalised(time) /\ Normalised(currentTime))
    /\ [][ /\ (last'.op = "tick" /\ last'.note = "hook")
                 => Secs(time') = Secs(time) - 1 /\ currentTime' = currentTime
           /\ (last'.op = "tick" /\ last'.note = "worker")
                 => Secs(currentTime') = Secs(currentTime) - 1 /\ time' = time ]_vars

\* C29 witness: the first tick of a countdown of the hook started at 1:00
\* has borrowed a minute.
C29_Witness ==
    /\ last.op = "tick"
    /\ last.note = "hook"
    /\ probe.clean
    /\ probe.started = Duration(1, 0)
    /\ probe.elapsed = 1
    /\ time = Duration(0, 59)


\* The reminder is enabled, the Clock is running and the phase is Focus.
Armed == mcqMode /\ isActive /\ timerState.phase = "focus"

\* C30: with an interval of at least one second the reminder countdown lies
\* in 1 .. mcqInterval while the reminder is enabled, the Clock is running
\* and the phase is Focus, and is 0 otherwise; each entry into that
\* condition, and each change of the interval under it, sets the countdown
\* to the interval.
C30_ReminderCountdownRange ==
    /\ []((status = "mounted" /\ mcqInterval >= 1)
            => IF Armed THEN mcqCountdown \in 1 .. mcqInterval ELSE mcqCountdown = 0)
    /\ [][ (Armed' /\ mcqInterval' >= 1 /\ (~Armed \/ mcqInterval' # mcqInterval))
              => mcqCountdown' = mcqInterval' /\ mcqIntervalRef' ]_vars

\* C30 witness: with an interval of two seconds the countdown had reached 1
\* or started over when the Clock was paused; the resume has set it to 2.
C30_Witness ==
    /\ last.op = "start"
    /\ last.flag
    /\ Armed
    /\ mcqInterval = 2
    /\ mcqCountdown = 2
    /\ reminder = 0
    /\ statistics.mcqReminders = 1


\* A countdown has just been started (a START_TIMER that found the worker
\* running has started none).
Fresh == last.op = "start" /\ ~(last.note = "worker" /\ last.flag)

\* A countdown that no pause or reset has touched is running.
Counting == probe.clean /\ (isActive \/ isRunning)

\* The countdown has emitted its completion signal and the clock is stopped.
Done == last.op = "complete" /\ probe.signals = 1 /\ Stopped

\* C31: with the interval firing fairly, a countdown started with any valid
\* duration advances, and then emits its completion signal and leaves the
\* clock not running, unless a pause, a reset or a new start ends it first.
C31_EventuallyCompletes ==
    /\ Fresh ~> ~Fresh
    /\ (Counting /\ ~Fresh) ~> (Done \/ Fresh \/ last.op \in {"pause", "reset"})

\* C31 witness: a countdown of the hook started at the longest duration has completed.
C31_Witness ==
    /\ Done
    /\ last.note = "hook"
    /\ probe.clean
    /\ probe.started = Duration(MaxMinutes, 59)
    /\ probe.elapsed = Secs(probe.started) + 1


\* C32: the completion of a countdown that was started with a break
\* duration, by the Start button or by the auto-start, increases neither
\* totalFocusTime nor completedSessions.
C32_NoFocusCreditForBreaks ==
    [][ (last'.op = "complete" /\ countdown.kind \in Breaks)
          => /\ statistics'.totalFocusTime <= statistics.totalFocusTime
             /\ statistics'.completedSessions <= statistics.completedSessions ]_vars


\* C33: when a wake-lock request settles after a pause or a reset has
\* stopped the Clock, no wake lock is held while the Clock is not running;
\* and no sentinel is left unreleased outside the ref, whatever start
\* found a lock already held.
C33_WakeLockRace ==
    /\ (last.op = "wakeLock" /\ ~probe.clean /\ ~isActive) => ~wakeLockRef /\ wakeLocks = 0
    /\ wakeLocks = (IF wakeLockRef THEN 1 ELSE 0)


\* C34: a START_TIMER that finds the worker running leaves the remaining
\* time, the running flag and the interval as they were, whatever duration
\* it carries, and posts nothing; one that finds the worker not running sets
\* it running with the duration carried.
C34_StartWhileRunning ==
    [][ (last'.op = "start" /\ last'.note = "worker")
          => IF isRunning
                THEN /\ last'.flag
                     /\ UNCHANGED <<currentTime, isRunning, timerInterval, probe>>
                ELSE /\ ~last'.flag
                     /\ isRunning'
                     /\ timerInterval'
                     /\ currentTime' = last'.at ]_vars

\* C34 witness: a START_TIMER carrying 2:00 has found the worker running a
\* countdown started at 0:30, with 0:29 remaining.
C34_Witness ==
    /\ last.op = "start"
    /\ last.note = "worker"
    /\ last.flag
    /\ last.at = Duration(2, 0)
    /\ probe.started = Duration(0, 30)
    /\ probe.elapsed = 1
    /\ currentTime = Duration(0, 29)
    /\ isRunning
    /\ timerInterval

=============================================================================
